---- MODULE Spec2Model ----
(***************************************************************************)
(* The Jam Session: the album lottery of the JamApp component, followed by  *)
(* the duplicate detection of addAlbum, the albums table, the personal     *)
(* ranking and ensureSession, each with a specification of its own.        *)
(*                                                                         *)
(* State of the component that the lottery reads and writes: the album     *)
(* list, the aggregated tallies (stats), and the picked album.  The        *)
(* handlers are the realtime refresh callbacks (setAlbums, setStats) and   *)
(* pickByRules.  Math.floor(Math.random() * n) is a nondeterministic       *)
(* choice among the integers it can return.                                *)
(***************************************************************************)
EXTENDS Integers, Sequences, FiniteSets, TLC

\* ---------------------------------------------------------------- bounds
MaxAlbums == 2
MaxVotes == 3

\* -------------------------------------------------------------- universe
AlbumIds == 1..MaxAlbums

\* picked = null (useState<Album | null>(null))
NoAlbum == 0

\* A row of the album_stats view: the number of votes of each preference
\* value on one album.  MaxVotes bounds the vote rows of the whole session.
Tallies ==
    { t \in [c1 : 0..MaxVotes, c2 : 0..MaxVotes, c3 : 0..MaxVotes] :
        t.c1 + t.c2 + t.c3 <= MaxVotes }

VotesIn(t) == t.c1 + t.c2 + t.c3

RECURSIVE VotesUpTo(_, _)
VotesUpTo(st, n) ==
    IF n = 0 THEN 0
    ELSE VotesUpTo(st, n - 1) + (IF n \in DOMAIN st THEN VotesIn(st[n]) ELSE 0)

\* the vote rows behind a stats map
TotalVotes(st) == VotesUpTo(st, MaxAlbums)

VARIABLES
    albums,   \* Album[]: sequence of distinct album ids
    stats,    \* Record<albumId, {c1,c2,c3}>: function on a subset of AlbumIds
    picked,   \* Album | null
    path,     \* the return of pickByRules the last handler left by ("none": another handler)
    rolls     \* the values of Math.floor(Math.random() * n) the last handler consumed, in order

vars == <<albums, stats, picked, path, rolls>>

\* levenshtein(a, b): the two arguments and the returned distance
VARIABLES levA, levB, levOut

levVars == <<levA, levB, levOut>>

\* suggestClose(input, candidates): the two arguments and the returned list
VARIABLES sugInput, sugCands, sugOut

sugVars == <<sugInput, sugCands, sugOut>>

\* addAlbum: the albums this client shows, the two form fields, whether
\* sessionId is set, the rows addAlbumRow has inserted, how the handler ended
\* and what became of the confirmation prompt
VARIABLES clientAlbums, newAlbumTitle, newAlbumArtist, sessionReady, insertedRows,
          addResult, addPrompt

addVars == <<clientAlbums, newAlbumTitle, newAlbumArtist, sessionReady, insertedRows,
             addResult, addPrompt>>

\* the albums table of one session and the list each client shows
VARIABLES albumRows, shownAlbums

dbVars == <<albumRows, shownAlbums>>

\* rankAlbumsByMyVote: the list passed, the user's own votes and the list
\* returned
VARIABLES listAlbums, myVotes, rankOut

rankVars == <<listAlbums, myVotes, rankOut>>

\* the Sort jams button of user A in two runs of the program that differ in
\* what the other user does: the albums A is shown, whether A has sorted, A's
\* votes (the same in both runs) and the votes of the other user
VARIABLES runAlbums, runSorted, ownVotes, othersVotes

runVars == <<runAlbums, runSorted, ownVotes, othersVotes>>

\* ensureSession: the sessions table, the user each caller is signed in as
\* (NoUser for none) and where each caller's call stands
VARIABLES sessions, authUser, calls

sesVars == <<sessions, authUser, calls>>

\* the votes table; what the vote helpers have been asked last and what they
\* have written (voteLog); where a call of clearVotesForUserInSession and a
\* call of migrateVotesFromAnonToAuth stand; the tallies another client has
\* last fetched
VARIABLES voteRows, voteLog, clearCall, migration, readStats

voteVars == <<voteRows, voteLog, clearCall, migration, readStats>>

\* the data-loading effect of JamApp: the component's session (the name in
\* the session input), sessionId, albums and votes (myVotes and stats, which
\* are always set together); whether it is mounted; the runs of the effect;
\* the albums and votes the database holds per session and the number of
\* changes made to it; what a run did after its cleanup (late)
VARIABLES jamSession, jamSessionId, jamAlbums, jamVotes, mounted, effects,
          storedAlbums, storedVotes, changes, late

effVars == <<jamSession, jamSessionId, jamAlbums, jamVotes, mounted, effects,
             storedAlbums, storedVotes, changes, late>>

allVars == <<vars, levVars, sugVars, addVars, dbVars, rankVars, runVars, sesVars, voteVars, effVars>>

\* a step of one part of the program leaves the state of the other parts alone
LotteryOnly == UNCHANGED <<levVars, sugVars, addVars, dbVars, rankVars, runVars, sesVars, voteVars, effVars>>

LevOnly == UNCHANGED <<vars, sugVars, addVars, dbVars, rankVars, runVars, sesVars, voteVars, effVars>>

SugOnly == UNCHANGED <<vars, levVars, addVars, dbVars, rankVars, runVars, sesVars, voteVars, effVars>>

AddOnly == UNCHANGED <<vars, levVars, sugVars, dbVars, rankVars, runVars, sesVars, voteVars, effVars>>

DbOnly == UNCHANGED <<vars, levVars, sugVars, addVars, rankVars, runVars, sesVars, voteVars, effVars>>

RankOnly == UNCHANGED <<vars, levVars, sugVars, addVars, dbVars, runVars, sesVars, voteVars, effVars>>

RunOnly == UNCHANGED <<vars, levVars, sugVars, addVars, dbVars, rankVars, sesVars, voteVars, effVars>>

SesOnly == UNCHANGED <<vars, levVars, sugVars, addVars, dbVars, rankVars, runVars, voteVars, effVars>>

VoteOnly == UNCHANGED <<vars, levVars, sugVars, addVars, dbVars, rankVars, runVars, sesVars, effVars>>

EffOnly == UNCHANGED <<vars, levVars, sugVars, addVars, dbVars, rankVars, runVars, sesVars, voteVars>>


\* ---------------------------------------------------------- pure helpers

\* stats[a.id]: the tally, or undefined (the empty sequence)
StatOf(st, id) == IF id \in DOMAIN st THEN <<st[id]>> ELSE <<>>

\* faulty variant: one veto is not enough to block
hasBlockFromStatsTwoVetoes(s) == s # <<>> /\ s[1].c3 > 1

hasBlockFromStats(s) == s # <<>> /\ s[1].c3 > 0

\* faulty variant: the two multipliers swapped
weightFromStatsSwapped(s) ==
    IF s = <<>> THEN 1
    ELSE IF s[1].c3 > 0 THEN 0
    ELSE LET w == s[1].c1 * 3 + s[1].c2 * 5
         IN  IF w > 0 THEN w ELSE 1

\* faulty variant: no minimum weight for an album without votes
weightFromStatsNoFloor(s) ==
    IF s = <<>> THEN 0
    ELSE IF s[1].c3 > 0 THEN 0
    ELSE s[1].c1 * 5 + s[1].c2 * 3

weightFromStats(s) ==
    IF s = <<>> THEN 1
    ELSE IF s[1].c3 > 0 THEN 0
    ELSE LET w == s[1].c1 * 5 + s[1].c2 * 3
         IN  IF w > 0 THEN w ELSE 1

\* albums.map(a => ({album, weight, blocked}))
Scored(albs, st) ==
    [i \in 1..Len(albs) |->
        [album   |-> albs[i],
         weight  |-> weightFromStats(StatOf(st, albs[i])),
         blocked |-> hasBlockFromStats(StatOf(st, albs[i]))]]

NotBlocked(x) == ~x.blocked

\* faulty variant: the filter keeps the blocked albums
PoolOfBlocked(albs, st) == SelectSeq(Scored(albs, st), LAMBDA x : x.blocked)

\* .filter(x => !x.blocked)
Pool(albs, st) == SelectSeq(Scored(albs, st), NotBlocked)

RECURSIVE SumWeights(_, _)
SumWeights(pool, n) ==
    IF n = 0 THEN 0 ELSE SumWeights(pool, n - 1) + pool[n].weight

\* pool.reduce((acc, x) => acc + x.weight, 0)
TotalTickets(pool) == SumWeights(pool, Len(pool))

\* The values Math.floor(Math.random() * n) can take: Math.random() is in [0, 1)
RandomBelow(n) == IF n <= 0 THEN {0} ELSE 0..(n - 1)

\* for (const x of pool) { r -= x.weight; if (r <= 0) return x }: the index of
\* the album the walk stops at, 0 when the loop ends without a return
\* faulty variant: the walk stops only once r is below zero
RECURSIVE WalkFromStrict(_, _, _)
WalkFromStrict(pool, i, r) ==
    IF i > Len(pool) THEN 0
    ELSE IF r - pool[i].weight < 0 THEN i
    ELSE WalkFromStrict(pool, i + 1, r - pool[i].weight)

RECURSIVE WalkFrom(_, _, _)
WalkFrom(pool, i, r) ==
    IF i > Len(pool) THEN 0
    ELSE IF r - pool[i].weight <= 0 THEN i
    ELSE WalkFrom(pool, i + 1, r - pool[i].weight)

Walk(pool, r) == WalkFrom(pool, 1, r)

\* ------------------------------------------------------------------ Init
Init ==
    /\ albums = <<>>
    /\ stats = <<>>
    /\ picked = NoAlbum
    /\ path = "none"
    /\ rolls = <<>>

\* --------------------------------------------------------------- actions

InList(albs, id) == \E i \in 1..Len(albs) : albs[i] = id

Without(albs, id) == SelectSeq(albs, LAMBDA x : x # id)

\* subscribeAlbums callback: setAlbums(latest) after a row of the session was
\* inserted or removed (deleted or archived)
AlbumsChanged ==
    /\ \E id \in AlbumIds :
          albums' = IF InList(albums, id) THEN Without(albums, id)
                    ELSE Append(albums, id)
    /\ path' = "none"
    /\ rolls' = <<>>
    /\ UNCHANGED <<stats, picked>>

ZeroTally == [c1 |-> 0, c2 |-> 0, c3 |-> 0]

\* the row of album id after one more vote of value v
Voted(t, v, d) ==
    [c1 |-> t.c1 + (IF v = 1 THEN d ELSE 0),
     c2 |-> t.c2 + (IF v = 2 THEN d ELSE 0),
     c3 |-> t.c3 + (IF v = 3 THEN d ELSE 0)]

CountOf(t, v) == IF v = 1 THEN t.c1 ELSE IF v = 2 THEN t.c2 ELSE t.c3

WithRow(st, id, t) == [a \in (DOMAIN st) \cup {id} |-> IF a = id THEN t ELSE st[a]]

\* subscribeVotes callback: setStats(st2) after a vote changed; the row of one
\* album of the view gained or lost a vote, or is new or gone
VotesChanged ==
    /\ \E id \in AlbumIds :
          \/ \E v \in 1..3 :
                /\ TotalVotes(stats) < MaxVotes
                /\ stats' = WithRow(stats, id,
                                Voted(IF id \in DOMAIN stats THEN stats[id] ELSE ZeroTally, v, 1))
          \/ \E v \in 1..3 :
                /\ id \in DOMAIN stats
                /\ CountOf(stats[id], v) > 0
                /\ stats' = WithRow(stats, id, Voted(stats[id], v, -1))
          \/ /\ id \notin DOMAIN stats
             /\ stats' = WithRow(stats, id, ZeroTally)
          \/ /\ id \in DOMAIN stats
             /\ stats' = [a \in (DOMAIN stats) \ {id} |-> stats[a]]
    /\ path' = "none"
    /\ rolls' = <<>>
    /\ UNCHANGED <<albums, picked>>

\* albums[Math.floor(Math.random() * albums.length)] for the value k of the
\* floor; an index outside the array reads undefined (no album)
\* faulty variant: the fallback ignores the drawn index
FallbackChoiceFirst(albs, k) == IF 1 \in DOMAIN albs THEN albs[1] ELSE NoAlbum

FallbackChoice(albs, k) == IF k + 1 \in DOMAIN albs THEN albs[k + 1] ELSE NoAlbum

\* if (albums.length === 0) return
NoDraw ==
    /\ picked' = picked
    /\ rolls' = <<>>
    /\ path' = "empty"

\* const choice = albums[Math.floor(Math.random() * albums.length)]; setPicked(choice)
FallbackDraw ==
    \E k \in RandomBelow(Len(albums)) :
        /\ picked' = FallbackChoice(albums, k)
        /\ rolls' = <<k>>
        /\ path' = "fallback"

\* faulty variant: a second random value is drawn for the walk
WeightedDrawTwice(pool) ==
    \E k \in RandomBelow(TotalTickets(pool)), k2 \in RandomBelow(TotalTickets(pool)) :
        LET i == Walk(pool, k2 + 1) IN
        /\ rolls' = <<k, k2>>
        /\ IF i > 0
           THEN picked' = pool[i].album /\ path' = "walk"
           ELSE picked' = pool[Len(pool)].album /\ path' = "safety"

\* let r = Math.floor(Math.random() * totalTickets) + 1, then the walk; the
\* statement after the loop picks the last album of the pool
WeightedDraw(pool) ==
    \E k \in RandomBelow(TotalTickets(pool)) :
        LET i == Walk(pool, k + 1) IN
        /\ rolls' = <<k>>
        /\ IF i > 0
           THEN picked' = pool[i].album /\ path' = "walk"
           ELSE picked' = pool[Len(pool)].album /\ path' = "safety"

\* faulty variant: the blocked albums are filtered out of the list itself
pickByRulesFilterInPlace ==
    LET pool == Pool(albums, stats) IN
    /\ albums' = [i \in 1..Len(pool) |-> pool[i].album]
    /\ UNCHANGED stats
    /\ IF Len(pool) = 0
       THEN IF Len(albums) = 0 THEN NoDraw ELSE FallbackDraw
       ELSE WeightedDraw(pool)

\* faulty variant: no early return on an empty list
pickByRulesNoEmptyReturn ==
    LET pool == Pool(albums, stats) IN
    /\ UNCHANGED <<albums, stats>>
    /\ IF Len(pool) = 0 THEN FallbackDraw ELSE WeightedDraw(pool)

pickByRules ==
    LET pool == Pool(albums, stats) IN
    /\ UNCHANGED <<albums, stats>>
    /\ IF Len(pool) = 0
       THEN IF Len(albums) = 0 THEN NoDraw ELSE FallbackDraw
       ELSE WeightedDraw(pool)

Next ==
    \/ AlbumsChanged /\ LotteryOnly
    \/ VotesChanged /\ LotteryOnly
    \/ pickByRules /\ LotteryOnly


LotteryIdle ==
    /\ albums = <<>>
    /\ stats = <<>>
    /\ picked = NoAlbum
    /\ path = "none"
    /\ rolls = <<>>

LevIdle == levA = <<>> /\ levB = <<>> /\ levOut = <<>>

SugIdle == sugInput = <<>> /\ sugCands = <<>> /\ sugOut = <<>>

AddIdle ==
    /\ clientAlbums = <<>> /\ newAlbumTitle = <<>> /\ newAlbumArtist = <<>>
    /\ sessionReady = FALSE /\ insertedRows = <<>>
    /\ addResult = "pending" /\ addPrompt = "none"

DbIdle == albumRows = <<>> /\ shownAlbums = <<>>

RankIdle == listAlbums = <<>> /\ myVotes = <<>> /\ rankOut = <<>>

RunIdle == runAlbums = <<>> /\ runSorted = <<>> /\ ownVotes = <<>> /\ othersVotes = <<>>

SesIdle == sessions = <<>> /\ authUser = <<>> /\ calls = <<>>

VoteIdle ==
    /\ voteRows = <<>> /\ voteLog = <<>> /\ clearCall = <<>>
    /\ migration = <<>> /\ readStats = <<>>

EffIdle ==
    /\ jamSession = "" /\ jamSessionId = 0 /\ jamAlbums = <<>> /\ jamVotes = 0
    /\ mounted = FALSE /\ effects = <<>> /\ storedAlbums = <<>> /\ storedVotes = <<>>
    /\ changes = 0 /\ late = <<>>

\* the other parts of the program are at rest
LotteryStart ==
    Init /\ LevIdle /\ SugIdle /\ AddIdle /\ DbIdle /\ RankIdle /\ RunIdle /\ SesIdle /\ VoteIdle /\ EffIdle

Spec == LotteryStart /\ [][Next]_allVars

TypeOK ==
    /\ albums \in Seq(AlbumIds)
    /\ \A i, j \in 1..Len(albums) : albums[i] = albums[j] => i = j
    /\ DOMAIN stats \subseteq AlbumIds
    /\ \A a \in DOMAIN stats : stats[a] \in Tallies
    /\ TotalVotes(stats) <= MaxVotes
    /\ picked \in AlbumIds \cup {NoAlbum}
    /\ path \in {"none", "empty", "fallback", "walk", "safety"}
    /\ Len(rolls) <= 1

\* ================================================================ claims

\* the last handler was a pick request (only pickByRules leaves by a return)
PickRan == path # "none"

\* the counts of an album as the specification reads them: zero when it has no tally
CountsOf(st, id) == IF id \in DOMAIN st THEN st[id] ELSE ZeroTally

\* an album is vetoed when at least one vote on it is a 3
Vetoed(st, id) == CountsOf(st, id).c3 > 0

\* positions of the album list that hold a non-vetoed album
Eligible == { i \in 1..Len(albums) : ~Vetoed(stats, albums[i]) }

InPool(id) == \E j \in 1..Len(Pool(albums, stats)) : Pool(albums, stats)[j].album = id

\* C1: veto dominance.  After a pick request on a list with at least one
\* non-vetoed album the picked album is never a vetoed one, for every random
\* value; and an album is left out of the weighted pool exactly when its c3 > 0.
VetoDominance ==
    /\ (PickRan /\ Eligible # {}) => (picked # NoAlbum /\ ~Vetoed(stats, picked))
    /\ \A i \in 1..Len(albums) : InPool(albums[i]) <=> ~(CountsOf(stats, albums[i]).c3 > 0)

\* a vetoed album with votes of level 1 and 2 stood in the list, and the pick
\* went to another album
VetoDominanceWitness ==
    /\ path = "walk"
    /\ \E i \in 1..Len(albums) :
          /\ Vetoed(stats, albums[i])
          /\ stats[albums[i]].c1 > 0
          /\ stats[albums[i]].c2 > 0
          /\ picked # albums[i]
    /\ picked # NoAlbum /\ ~Vetoed(stats, picked)

\* the weight the lottery gives the album at position i of the list
WeightAt(i) == Scored(albums, stats)[i].weight

\* C2 as stated: the weight of every non-vetoed album is 5 * c1 + 3 * c2, and a
\* vetoed album has weight 0.
TicketWeightLinear ==
    \A i \in 1..Len(albums) :
        LET c == CountsOf(stats, albums[i]) IN
        WeightAt(i) = IF c.c3 > 0 THEN 0 ELSE 5 * c.c1 + 3 * c.c2

\* C2 amended: the weight of every non-vetoed album is 5 * c1 + 3 * c2 when
\* that is positive and 1 when it is zero; a vetoed album has weight 0.
TicketWeightFloored ==
    \A i \in 1..Len(albums) :
        LET c == CountsOf(stats, albums[i]) IN
        WeightAt(i) = IF c.c3 > 0 THEN 0
                      ELSE IF 5 * c.c1 + 3 * c.c2 > 0 THEN 5 * c.c1 + 3 * c.c2
                      ELSE 1

\* a pick ran on a list that holds an album with votes of both levels
\* (weight 8 or more) next to an album without votes (weight 1)
TicketWeightWitness ==
    /\ path = "walk"
    /\ \E i, j \in 1..Len(albums) :
          /\ CountsOf(stats, albums[i]).c1 > 0
          /\ CountsOf(stats, albums[i]).c2 > 0
          /\ WeightAt(i) >= 8
          /\ VotesIn(CountsOf(stats, albums[j])) = 0
          /\ WeightAt(j) = 1

\* C3: the README's rule: tickets = 2 * (number of 1-votes) + 1 * (number of
\* 2-votes) for an album nobody voted 3 on (weight 1 for one without votes).
ReadmeTicketRule ==
    \A i \in 1..Len(albums) :
        LET c == CountsOf(stats, albums[i]) IN
        c.c3 = 0 =>
            WeightAt(i) = IF 2 * c.c1 + c.c2 > 0 THEN 2 * c.c1 + c.c2 ELSE 1

\* C4: the general weighted draw is proportional.  For a non-empty pool with
\* total T the draw produces every r in 1..T; each r stops the walk inside the
\* loop, at the album i with w_1+..+w_(i-1) < r <= w_1+..+w_i, so the statement
\* after the loop is never reached; and exactly w_i values of r select album i.
ProportionalDraw ==
    LET pool == Pool(albums, stats)
        T    == TotalTickets(pool)
    IN  Len(pool) >= 1 =>
          /\ { k + 1 : k \in RandomBelow(T) } = 1..T
          /\ \A r \in 1..T :
                LET i == Walk(pool, r) IN
                /\ i \in 1..Len(pool)
                /\ SumWeights(pool, i - 1) < r
                /\ r <= SumWeights(pool, i)
          /\ \A i \in 1..Len(pool) :
                Cardinality({ r \in 1..T : Walk(pool, r) = i }) = pool[i].weight
          /\ path # "safety"
          /\ path = "walk" =>
                /\ Len(rolls) = 1
                /\ rolls[1] + 1 \in 1..T
                /\ picked = pool[Walk(pool, rolls[1] + 1)].album

\* the last ticket of a pool of two albums of different weights was drawn and
\* selected the second album
ProportionalDrawWitness ==
    LET pool == Pool(albums, stats) IN
    /\ path = "walk"
    /\ Len(pool) = 2
    /\ pool[1].weight # pool[2].weight
    /\ pool[2].weight > 1
    /\ rolls = <<TotalTickets(pool) - 1>>
    /\ picked = pool[2].album

\* C5: minimum weight.  An album without a tally is treated as one whose tally
\* is (0,0,0): not vetoed, weight exactly 1, the same pool.  Every non-vetoed
\* album has weight >= 1 and is selected by at least one value of r.
MinimumWeight ==
    LET pool == Pool(albums, stats)
        T    == TotalTickets(pool)
    IN  /\ \A i \in 1..Len(albums) :
              ~Vetoed(stats, albums[i]) =>
                  /\ WeightAt(i) >= 1
                  /\ \E k \in RandomBelow(T) :
                        /\ Walk(pool, k + 1) > 0
                        /\ pool[Walk(pool, k + 1)].album = albums[i]
        /\ \A i \in 1..Len(albums) :
              albums[i] \notin DOMAIN stats =>
                  /\ WeightAt(i) = 1
                  /\ ~Scored(albums, stats)[i].blocked
                  /\ Pool(albums, WithRow(stats, albums[i], ZeroTally)) = pool
        /\ \A i \in 1..Len(albums) :
              (albums[i] \in DOMAIN stats /\ stats[albums[i]] = ZeroTally) =>
                  /\ WeightAt(i) = 1
                  /\ ~Scored(albums, stats)[i].blocked

\* an album without a tally was picked although the other album of the pool
\* holds ten tickets
MinimumWeightWitness ==
    /\ path = "walk"
    /\ picked # NoAlbum
    /\ picked \notin DOMAIN stats
    /\ \E j \in 1..Len(Pool(albums, stats)) :
          /\ Pool(albums, stats)[j].album # picked
          /\ Pool(albums, stats)[j].weight >= 10

\* every album of a non-empty list is vetoed
AllVetoed == Len(albums) > 0 /\ Eligible = {}

\* C6: global-veto fallback.  On a non-empty list of vetoed albums a pick
\* request picks albums[k] for one drawn index k in 0..n-1, and each album is
\* selected by exactly one index value, whatever its counts are.
GlobalVetoFallback ==
    LET n == Len(albums) IN
    /\ (PickRan /\ AllVetoed) =>
          /\ path = "fallback"
          /\ Len(rolls) = 1
          /\ rolls[1] \in 0..(n - 1)
          /\ picked = albums[rolls[1] + 1]
    /\ path = "fallback" => AllVetoed
    /\ AllVetoed =>
          /\ RandomBelow(n) = 0..(n - 1)
          /\ \A i \in 1..n :
                Cardinality({ k \in RandomBelow(n) : FallbackChoice(albums, k) = albums[i] }) = 1

\* the fallback picked the second of two vetoed albums, the one with fewer vetoes
GlobalVetoFallbackWitness ==
    /\ path = "fallback"
    /\ Len(albums) = 2
    /\ picked = albums[2]
    /\ stats[albums[1]].c3 > stats[albums[2]].c3

\* C7: empty set.  A pick request on an empty album list performs no draw: it
\* consumes no random value, selects no album and leaves picked as it was.
EmptyNoDraw ==
    [][ (albums = <<>> /\ path' # "none") =>
            (path' = "empty" /\ rolls' = <<>> /\ picked' = picked) ]_vars

\* a pick request ran on a list that had become empty after an earlier pick
EmptyNoDrawWitness ==
    /\ path = "empty"
    /\ albums = <<>>
    /\ rolls = <<>>
    /\ picked # NoAlbum

\* C8: singleton result.  With exactly one non-vetoed album in the list, a
\* pick request picks that album for every value of the random source and
\* every weight of the album.
SingletonResult ==
    LET pool == Pool(albums, stats) IN
    Cardinality(Eligible) = 1 =>
        \A e \in Eligible :
            /\ PickRan => picked = albums[e]
            /\ Len(pool) >= 1 =>
                  \A k \in RandomBelow(TotalTickets(pool)) :
                      LET i == Walk(pool, k + 1) IN
                      pool[IF i > 0 THEN i ELSE Len(pool)].album = albums[e]

\* the only non-vetoed album stands behind a vetoed one, holds several
\* tickets, and was picked on a random value other than the lowest
SingletonResultWitness ==
    /\ path = "walk"
    /\ Len(albums) = 2
    /\ Eligible = {2}
    /\ WeightAt(2) > 1
    /\ rolls # <<0>>
    /\ picked = albums[2]

\* C9: the singleton shortcut consumes no entropy: with exactly one eligible
\* album the pick request returns it without a call of the random generator.
SingletonNoEntropy ==
    (PickRan /\ Cardinality(Eligible) = 1) => rolls = <<>>

\* C10: a pick request that draws (two or more eligible albums, or the
\* all-vetoed fallback) consumes exactly one random value, and no pick request
\* consumes more than one.
OneRandomValue ==
    /\ PickRan => Len(rolls) <= 1
    /\ (PickRan /\ (Cardinality(Eligible) >= 2 \/ AllVetoed)) => Len(rolls) = 1

\* a weighted draw over two eligible albums consumed one value
OneRandomValueWitness ==
    /\ path = "walk"
    /\ Cardinality(Eligible) = 2
    /\ Len(rolls) = 1
    /\ rolls[1] > 0

\* C11: a pick request leaves its inputs unchanged: the album list (members
\* and order) and the tally map are after pickByRules what they were before,
\* on the empty, the fallback and the weighted path.
PickLeavesInputs ==
    [][ path' # "none" => (albums' = albums /\ stats' = stats) ]_vars

\* a weighted pick ran on a list of two albums of which the first is vetoed:
\* the pool differs from the list, and the list and the tallies still stand
PickLeavesInputsWitness ==
    /\ path = "walk"
    /\ Len(albums) = 2
    /\ Vetoed(stats, albums[1])
    /\ Len(Pool(albums, stats)) = 1
    /\ picked = albums[2]

\* ============================================================== strings
\* A string is a sequence of characters.

Letters == {"a", "b", "A", "B"}
Spaces == {" ", "\t"}

IsSpace(c) == c \in Spaces

toLowerChar(c) == IF c = "A" THEN "a" ELSE IF c = "B" THEN "b" ELSE c

\* s.toLowerCase()
toLowerCase(s) == [i \in 1..Len(s) |-> toLowerChar(s[i])]

RECURSIVE trimStart(_)
trimStart(s) == IF s # <<>> /\ IsSpace(Head(s)) THEN trimStart(Tail(s)) ELSE s

RECURSIVE trimEnd(_)
trimEnd(s) ==
    IF s # <<>> /\ IsSpace(s[Len(s)]) THEN trimEnd(SubSeq(s, 1, Len(s) - 1)) ELSE s

\* s.trim()
trim(s) == trimEnd(trimStart(s))

\* s.replace(/\s+/g, " "): every maximal run of whitespace becomes one space
RECURSIVE collapseSpaces(_)
collapseSpaces(s) ==
    IF s = <<>> THEN <<>>
    ELSE IF IsSpace(Head(s))
         THEN <<" ">> \o collapseSpaces(trimStart(Tail(s)))
         ELSE <<Head(s)>> \o collapseSpaces(Tail(s))

\* norm(s) = s.trim().toLowerCase().replace(/\s+/g, " ")
norm(s) == collapseSpaces(toLowerCase(trim(s)))

Min3(x, y, z) == IF x <= y /\ x <= z THEN x ELSE IF y <= z THEN y ELSE z

\* faulty variant: a substitution costs 2 (the distance without substitutions)
RECURSIVE dpRowNoSubstitution(_, _, _, _, _)
dpRowNoSubstitution(prev, ai, b, i, j) ==
    IF j = 0 THEN <<i>>
    ELSE LET left == dpRowNoSubstitution(prev, ai, b, i, j - 1)
             cost == IF ai = b[j] THEN 0 ELSE 2
         IN  Append(left, Min3(prev[j + 1] + 1, left[j] + 1, prev[j] + cost))

\* the inner loop: dp[i][0..j] from the row dp[i-1] (prev); index j + 1 of a
\* row holds dp[.][j]
RECURSIVE dpRow(_, _, _, _, _)
dpRow(prev, ai, b, i, j) ==
    IF j = 0 THEN <<i>>
    ELSE LET left == dpRow(prev, ai, b, i, j - 1)
             cost == IF ai = b[j] THEN 0 ELSE 1
         IN  Append(left, Min3(prev[j + 1] + 1, left[j] + 1, prev[j] + cost))

\* the outer loop: the row dp[i]
RECURSIVE dpRows(_, _, _)
dpRows(a, b, i) ==
    IF i = 0 THEN [j \in 1..(Len(b) + 1) |-> j - 1]
    ELSE dpRow(dpRows(a, b, i - 1), a[i], b, i, Len(b))

levenshtein(a, b) ==
    IF Len(a) = 0 THEN Len(b)
    ELSE IF Len(b) = 0 THEN Len(a)
    ELSE dpRows(a, b, Len(a))[Len(b) + 1]

\* ------------------------------------------- specification: levenshtein
MaxLevLen == 3

LevAlphabet == {"a", "b"}

LevStrings == UNION { [1..n -> LevAlphabet] : n \in 0..MaxLevLen }

\* levOut is <<>> before the call and <<d>> once it has returned d
LevInit ==
    /\ levA \in LevStrings
    /\ levB \in LevStrings
    /\ levOut = <<>>

CallLevenshtein ==
    /\ levOut = <<>>
    /\ levOut' = <<levenshtein(levA, levB)>>
    /\ UNCHANGED <<levA, levB>>

LevNext == CallLevenshtein /\ LevOnly


\* the other parts of the program are at rest
LevStart ==
    LevInit /\ LotteryIdle /\ SugIdle /\ AddIdle /\ DbIdle /\ RankIdle /\ RunIdle /\ SesIdle /\ VoteIdle /\ EffIdle

SpecLev == LevStart /\ [][LevNext]_allVars

\* the strings one insertion, deletion or substitution away from s
EditsOf(s) ==
    { SubSeq(s, 1, i - 1) \o SubSeq(s, i + 1, Len(s)) : i \in 1..Len(s) }
    \cup { [s EXCEPT ![i] = c] : i \in 1..Len(s), c \in LevAlphabet }
    \cup { SubSeq(s, 1, i) \o <<c>> \o SubSeq(s, i + 1, Len(s)) :
              i \in 0..Len(s), c \in LevAlphabet }

\* the strings at most k edits away from a
RECURSIVE WithinEdits(_, _)
WithinEdits(a, k) ==
    IF k = 0 THEN {a}
    ELSE LET near == WithinEdits(a, k - 1)
         IN  near \cup UNION { EditsOf(s) : s \in near }

\* the minimum number of single-character edits that turn a into b
MinEdits(a, b) ==
    CHOOSE k \in 0..(Len(a) + Len(b)) :
        /\ b \in WithinEdits(a, k)
        /\ k > 0 => b \notin WithinEdits(a, k - 1)

Swapped(s, i) == [s EXCEPT ![i] = s[i + 1], ![i + 1] = s[i]]

\* C14: levenshtein(a, b) is the minimum number of single-character
\* insertions, deletions and substitutions that turn a into b, also when a or
\* b is empty; levenshtein(a, a) = 0, levenshtein("kitten", "sitting") = 3,
\* and swapping two adjacent distinct characters costs 2.
LevenshteinIsEditDistance ==
    /\ levOut # <<>> =>
          /\ levOut = <<MinEdits(levA, levB)>>
          /\ levA = levB => levOut = <<0>>
          /\ (\E i \in 1..(Len(levA) - 1) :
                 levA[i] # levA[i + 1] /\ levB = Swapped(levA, i)) => levOut = <<2>>
    /\ levenshtein(levA, levA) = 0
    /\ levenshtein(<<"k", "i", "t", "t", "e", "n">>,
                   <<"s", "i", "t", "t", "i", "n", "g">>) = 3

\* the distance of two strings of full length that differ by an adjacent swap
\* was computed
LevenshteinWitness ==
    /\ levOut = <<2>>
    /\ Len(levA) = MaxLevLen
    /\ \E i \in 1..(Len(levA) - 1) : levA[i] # levA[i + 1] /\ levB = Swapped(levA, i)

\* ----------------------------------------------------------- suggestClose

\* x.localeCompare(y) in the default collation: the strings are compared
\* first without regard to case (whitespace before letters), and strings that
\* are equal that way lower case first
PrimaryRank(c) ==
    IF c = "\t" THEN 0 ELSE IF c = " " THEN 1
    ELSE IF toLowerChar(c) = "a" THEN 2 ELSE 3

CaseRank(c) == IF c \in {"A", "B"} THEN 1 ELSE 0

\* lexicographic comparison of two sequences of numbers: -1, 0 or 1
RECURSIVE CompareRanks(_, _)
CompareRanks(x, y) ==
    IF x = <<>> THEN (IF y = <<>> THEN 0 ELSE -1)
    ELSE IF y = <<>> THEN 1
    ELSE IF Head(x) < Head(y) THEN -1
    ELSE IF Head(x) > Head(y) THEN 1
    ELSE CompareRanks(Tail(x), Tail(y))

localeCompare(x, y) ==
    LET p == CompareRanks([i \in 1..Len(x) |-> PrimaryRank(x[i])],
                          [i \in 1..Len(y) |-> PrimaryRank(y[i])])
    IN  IF p # 0 THEN p
        ELSE CompareRanks([i \in 1..Len(x) |-> CaseRank(x[i])],
                          [i \in 1..Len(y) |-> CaseRank(y[i])])

\* default of the parameter maxDistance
maxDistance == 2

\* slice(0, 5)
MaxSuggestions == 5

\* faulty variant: the comparator looks at the strings only
cmpScoredByNameOnly(x, y) == localeCompare(x.c, y.c)

\* (x, y) => x.d - y.d || x.c.localeCompare(y.c)
cmpScored(x, y) == IF x.d - y.d # 0 THEN x.d - y.d ELSE localeCompare(x.c, y.c)

\* Array.prototype.sort is stable: x goes behind every element that does not
\* compare greater
RECURSIVE insertScored(_, _)
insertScored(sorted, x) ==
    IF sorted = <<>> THEN <<x>>
    ELSE IF cmpScored(sorted[Len(sorted)], x) <= 0 THEN Append(sorted, x)
    ELSE Append(insertScored(SubSeq(sorted, 1, Len(sorted) - 1), x), sorted[Len(sorted)])

RECURSIVE sortScored(_)
sortScored(scored) ==
    IF scored = <<>> THEN <<>>
    ELSE insertScored(sortScored(SubSeq(scored, 1, Len(scored) - 1)), scored[Len(scored)])

IsClose(x) == x.d <= maxDistance

\* the body of suggestClose behind the guard on the normalized input
closeMatches(inp, candidates) ==
    LET scored == [i \in 1..Len(candidates) |->
                      [c |-> candidates[i], d |-> levenshtein(inp, norm(candidates[i]))]]
        kept   == SelectSeq(sortScored(scored), IsClose)
        top    == SubSeq(kept, 1, IF Len(kept) < MaxSuggestions THEN Len(kept) ELSE MaxSuggestions)
    IN  [i \in 1..Len(top) |-> top[i].c]

\* faulty variant: no early return for an empty normalized input
suggestCloseNoGuard(input, candidates) == closeMatches(norm(input), candidates)

suggestClose(input, candidates) ==
    IF norm(input) = <<>> THEN <<>> ELSE closeMatches(norm(input), candidates)

\* ------------------------------------------ specification: suggestClose
MaxInputLen == 3
MaxCandLen == 2
MaxCands == 6

InputAlphabet == {"B", " "}
CandAlphabet == {"a", "B", " "}

InputStrings == UNION { [1..n -> InputAlphabet] : n \in 0..MaxInputLen }
CandStrings == UNION { [1..n -> CandAlphabet] : n \in 0..MaxCandLen }

\* the members of a set of strings, one after the other
RECURSIVE ListOf(_)
ListOf(S) ==
    IF S = {} THEN <<>>
    ELSE LET x == CHOOSE x \in S : TRUE IN <<x>> \o ListOf(S \ {x})

Reversed(q) == [i \in 1..Len(q) |-> q[Len(q) + 1 - i]]

\* candidate lists without repetition (buildCandidates collects them in a
\* Set), each set of strings in two opposite orders
CandLists ==
    LET sets == { S \in SUBSET CandStrings : Cardinality(S) <= MaxCands }
    IN  { ListOf(S) : S \in sets } \cup { Reversed(ListOf(S)) : S \in sets }

\* sugOut is <<>> before the call and <<list>> once it has returned list
SugInit ==
    /\ sugInput \in InputStrings
    /\ sugCands \in CandLists
    /\ sugOut = <<>>

CallSuggestClose ==
    /\ sugOut = <<>>
    /\ sugOut' = <<suggestClose(sugInput, sugCands)>>
    /\ UNCHANGED <<sugInput, sugCands>>

SugNext == CallSuggestClose /\ SugOnly


\* the other parts of the program are at rest
SugStart ==
    SugInit /\ LotteryIdle /\ LevIdle /\ AddIdle /\ DbIdle /\ RankIdle /\ RunIdle /\ SesIdle /\ VoteIdle /\ EffIdle

SpecSuggest == SugStart /\ [][SugNext]_allVars

\* the distance suggestClose scores a candidate with
DistanceTo(c) == levenshtein(norm(sugInput), norm(c))

IsCandidate(c) == \E i \in 1..Len(sugCands) : sugCands[i] = c

Returned(c) == \E i \in 1..Len(sugOut[1]) : sugOut[1][i] = c

BlankInput == \A i \in 1..Len(sugInput) : IsSpace(sugInput[i])

\* C16: suggestClose returns the empty list for every input that is empty or
\* only whitespace, whatever the candidates are.
BlankInputNoSuggestions ==
    (sugOut # <<>> /\ BlankInput) => sugOut = << <<>> >>

\* a whitespace-only input met candidates among which the empty string and a
\* one-letter string, both within distance 2 of the empty string
BlankInputWitness ==
    /\ sugOut = << <<>> >>
    /\ Len(sugInput) >= 2
    /\ BlankInput
    /\ IsCandidate(<<>>)
    /\ IsCandidate(<<"a">>)

\* ---------------------------------------------------------------- addAlbum

\* `${title.toLowerCase()}::${artist.toLowerCase()}`
albumKey(title, artist) == toLowerCase(title) \o <<":", ":">> \o toLowerCase(artist)

\* albums.some(al => key of al === key), t and a being the trimmed fields
existsExact(list, t, a) ==
    \E i \in 1..Len(list) : albumKey(list[i].title, list[i].artist) = albumKey(t, a)

\* suggestClose(...)[0] is a string or undefined; undefined and the empty
\* string are both falsy
firstTruthy(suggestions) == suggestions # <<>> /\ suggestions[1] # <<>>

\* nearTitle && nearArtist
nearBoth(list, t, a) ==
    /\ firstTruthy(suggestClose(t, [i \in 1..Len(list) |-> list[i].title]))
    /\ firstTruthy(suggestClose(a, [i \in 1..Len(list) |-> list[i].artist]))

\* faulty variant: a near match ends the handler as if the user had declined
addAlbumOutcomeBlocking(list, title, artist, ready, proceed, ok) ==
    LET t == trim(title)
        a == trim(artist)
    IN  IF t = <<>> \/ a = <<>> THEN [result |-> "ignored", prompt |-> "none"]
        ELSE IF ~ready THEN [result |-> "notReady", prompt |-> "none"]
        ELSE IF existsExact(list, t, a) THEN [result |-> "duplicate", prompt |-> "none"]
        ELSE IF nearBoth(list, t, a)
             THEN [result |-> "declined", prompt |-> IF proceed THEN "yes" ELSE "no"]
        ELSE [result |-> IF ok THEN "inserted" ELSE "failed", prompt |-> "none"]

\* how addAlbum ends: proceed is the user's answer to confirm(), asked only
\* when both near matches exist; ok is whether addAlbumRow returned rather
\* than threw
addAlbumOutcome(list, title, artist, ready, proceed, ok) ==
    LET t == trim(title)
        a == trim(artist)
    IN  IF t = <<>> \/ a = <<>> THEN [result |-> "ignored", prompt |-> "none"]
        ELSE IF ~ready THEN [result |-> "notReady", prompt |-> "none"]
        ELSE IF existsExact(list, t, a) THEN [result |-> "duplicate", prompt |-> "none"]
        ELSE IF nearBoth(list, t, a) /\ ~proceed THEN [result |-> "declined", prompt |-> "no"]
        ELSE [result |-> IF ok THEN "inserted" ELSE "failed",
              prompt |-> IF nearBoth(list, t, a) THEN "yes" ELSE "none"]

\* ---------------------------------------------- specification: addAlbum
MaxExisting == 1
MaxTitleLen == 4
MaxArtistLen == 1

FieldAlphabet == {"a", "A", " "}

TitleInputs == UNION { [1..n -> FieldAlphabet] : n \in 0..MaxTitleLen }
ArtistInputs == UNION { [1..n -> FieldAlphabet] : n \in 0..MaxArtistLen }

\* what addAlbumRow has stored before: trimmed, non-empty fields
StoredTitles ==
    { s \in UNION { [1..n -> {"a", " "}] : n \in 1..(MaxTitleLen - 1) } : trim(s) = s }
StoredArtists == { s \in ArtistInputs : trim(s) = s /\ s # <<>> /\ toLowerCase(s) = s }

StoredAlbums == [title : StoredTitles, artist : StoredArtists]

AddInit ==
    /\ clientAlbums \in UNION { [1..n -> StoredAlbums] : n \in 0..MaxExisting }
    /\ newAlbumTitle \in TitleInputs
    /\ newAlbumArtist \in ArtistInputs
    /\ sessionReady \in BOOLEAN
    /\ insertedRows = <<>>
    /\ addResult = "pending"
    /\ addPrompt = "none"

\* the handler of the Add button; the realtime subscription, not this
\* handler, refreshes the shown list afterwards
addAlbum ==
    /\ addResult = "pending"
    /\ \E proceed \in BOOLEAN, ok \in BOOLEAN :
          LET out == addAlbumOutcome(clientAlbums, newAlbumTitle, newAlbumArtist,
                                     sessionReady, proceed, ok)
          IN  /\ addResult' = out.result
              /\ addPrompt' = out.prompt
              /\ IF out.result = "inserted"
                 THEN /\ insertedRows' = Append(insertedRows,
                              [title |-> trim(newAlbumTitle), artist |-> trim(newAlbumArtist)])
                      /\ newAlbumTitle' = <<>>
                      /\ newAlbumArtist' = <<>>
                 ELSE UNCHANGED <<insertedRows, newAlbumTitle, newAlbumArtist>>
    /\ UNCHANGED <<clientAlbums, sessionReady>>

AddNext == addAlbum /\ AddOnly


\* the other parts of the program are at rest
AddStart ==
    AddInit /\ LotteryIdle /\ LevIdle /\ SugIdle /\ DbIdle /\ RankIdle /\ RunIdle /\ SesIdle /\ VoteIdle /\ EffIdle

SpecAdd == AddStart /\ [][AddNext]_allVars

\* the submitted pair equals, after norm, the pair of an album in the list
NormalizedDuplicate ==
    \E i \in 1..Len(clientAlbums) :
        /\ norm(clientAlbums[i].title) = norm(newAlbumTitle)
        /\ norm(clientAlbums[i].artist) = norm(newAlbumArtist)

\* C12: addAlbum rejects a new (title, artist) whenever, after trimming,
\* case-folding and collapsing runs of whitespace, the pair equals the
\* normalized pair of an album already in the list.
ExactDuplicateRejected ==
    [][ (sessionReady /\ NormalizedDuplicate) => addResult' = "duplicate" ]_addVars

\* the fields are non-empty, the session is ready and the exact check passes
Admissible ==
    /\ trim(newAlbumTitle) # <<>>
    /\ trim(newAlbumArtist) # <<>>
    /\ sessionReady
    /\ ~existsExact(clientAlbums, trim(newAlbumTitle), trim(newAlbumArtist))

\* C17 as stated: for a non-empty pair that is no exact duplicate, submitted
\* while the session is ready, the album is inserted whenever no prompt is
\* shown or the user confirms the prompt.
NearMatchNeverBlocks ==
    [][ (Admissible /\ addPrompt' \in {"none", "yes"}) =>
           /\ addResult' = "inserted"
           /\ insertedRows' = Append(insertedRows,
                   [title |-> trim(newAlbumTitle), artist |-> trim(newAlbumArtist)])
      ]_addVars

\* C17, amended: for such a pair the handler ends without calling
\* addAlbumRow only when the prompt was shown and declined; whenever no prompt
\* is shown or the user confirms, addAlbumRow is called with the trimmed pair
\* and the album is inserted unless that call fails.
NearMatchAdvisory ==
    [][ Admissible =>
           /\ addResult' \in {"inserted", "failed", "declined"}
           /\ addResult' = "declined" <=> addPrompt' = "no"
           /\ addResult' = "inserted" =>
                 insertedRows' = Append(insertedRows,
                     [title |-> trim(newAlbumTitle), artist |-> trim(newAlbumArtist)])
           /\ addResult' # "inserted" => insertedRows' = insertedRows
      ]_addVars

\* an album one edit away from a listed one was inserted after the user
\* confirmed the prompt
NearMatchAdvisoryWitness ==
    /\ addResult = "inserted"
    /\ addPrompt = "yes"
    /\ Len(clientAlbums) = 1
    /\ insertedRows = << [title |-> <<"a", "A">>, artist |-> <<"A">>] >>
    /\ clientAlbums[1].title = <<"a">>

\* ------------------------------------- specification: the albums table
MaxRows == 3
NumClients == 2
MaxBatch == 2

Clients == 1..NumClients

RowTitles == { <<"a">>, <<"A">>, <<"b">> }
RowArtists == { <<"a">> }

\* a row is known by its position; a deleted row keeps its position so that
\* the ids of the other rows stay what they were
IsActive(row) == row.state = "active"

\* fetchAlbums: the active rows in creation order
fetchAlbums == SelectSeq(albumRows, IsActive)

\* addAlbumRow: one new active row
addAlbumRow(rows, title, artist) ==
    Append(rows, [title |-> title, artist |-> artist, state |-> "active"])

HasFields(item) == item.title # <<>> /\ item.artist # <<>>

\* bulkAddAlbums: the items trimmed and those without title or artist dropped
trimmedItems(items) ==
    SelectSeq([i \in 1..Len(items) |->
                  [title |-> trim(items[i].title), artist |-> trim(items[i].artist)]],
              HasFields)

\* bulkAddAlbums: of the items with one key only the first is kept
RECURSIVE uniqueItems(_)
uniqueItems(rows) ==
    IF rows = <<>> THEN <<>>
    ELSE LET front == SubSeq(rows, 1, Len(rows) - 1)
             r     == rows[Len(rows)]
         IN  IF \E i \in 1..Len(front) :
                    albumKey(front[i].title, front[i].artist) = albumKey(r.title, r.artist)
             THEN uniqueItems(front)
             ELSE Append(uniqueItems(front), r)

RECURSIVE insertAll(_, _)
insertAll(rows, items) ==
    IF items = <<>> THEN rows
    ELSE insertAll(addAlbumRow(rows, Head(items).title, Head(items).artist), Tail(items))

DbInit ==
    /\ albumRows = <<>>
    /\ shownAlbums = [c \in Clients |-> <<>>]

\* the albums subscription of client c fires: setAlbums(await fetchAlbums(id))
RefreshAlbums(c) ==
    /\ shownAlbums' = [shownAlbums EXCEPT ![c] = fetchAlbums]
    /\ UNCHANGED albumRows

\* client c submits the form: addAlbum checks the list c shows, then inserts
ClientAddAlbum(c) ==
    /\ Len(albumRows) < MaxRows
    /\ \E title \in RowTitles, artist \in RowArtists, proceed \in BOOLEAN, ok \in BOOLEAN :
          /\ addAlbumOutcome(shownAlbums[c], title, artist, TRUE, proceed, ok).result = "inserted"
          /\ albumRows' = addAlbumRow(albumRows, trim(title), trim(artist))
    /\ UNCHANGED shownAlbums

\* bulkAddAlbums(sessionId, items); the batches here fit one chunk
bulkAddAlbums ==
    \E items \in UNION { [1..n -> [title : RowTitles \cup {<<" ">>}, artist : RowArtists]] :
                         n \in 1..MaxBatch } :
       /\ Len(albumRows) + Len(uniqueItems(trimmedItems(items))) <= MaxRows
       /\ albumRows' = insertAll(albumRows, uniqueItems(trimmedItems(items)))
       /\ UNCHANGED shownAlbums

archiveAlbumRow(id) ==
    /\ albumRows[id].state = "active"
    /\ albumRows' = [albumRows EXCEPT ![id].state = "archived"]
    /\ UNCHANGED shownAlbums

restoreAlbumRow(id) ==
    /\ albumRows[id].state = "archived"
    /\ albumRows' = [albumRows EXCEPT ![id].state = "active"]
    /\ UNCHANGED shownAlbums

deleteAlbumRow(id) ==
    /\ albumRows[id].state # "deleted"
    /\ albumRows' = [albumRows EXCEPT ![id].state = "deleted"]
    /\ UNCHANGED shownAlbums

DbNext ==
    \/ \E c \in Clients : RefreshAlbums(c) /\ DbOnly
    \/ \E c \in Clients : ClientAddAlbum(c) /\ DbOnly
    \/ bulkAddAlbums /\ DbOnly
    \/ \E id \in 1..Len(albumRows) : archiveAlbumRow(id) /\ DbOnly
    \/ \E id \in 1..Len(albumRows) : restoreAlbumRow(id) /\ DbOnly
    \/ \E id \in 1..Len(albumRows) : deleteAlbumRow(id) /\ DbOnly


\* the other parts of the program are at rest
DbStart ==
    DbInit /\ LotteryIdle /\ LevIdle /\ SugIdle /\ AddIdle /\ RankIdle /\ RunIdle /\ SesIdle /\ VoteIdle /\ EffIdle

SpecDb == DbStart /\ [][DbNext]_allVars

\* C13: after any sequence of addAlbum calls by several clients, each
\* checking the list it shows, of bulkAddAlbums, archiveAlbumRow,
\* restoreAlbumRow and deleteAlbumRow, no two active albums of the session
\* have the same normalized (title, artist) pair.
ActivePairsUnique ==
    \A i, j \in 1..Len(albumRows) :
        (i < j /\ IsActive(albumRows[i]) /\ IsActive(albumRows[j])) =>
            ~ /\ norm(albumRows[i].title) = norm(albumRows[j].title)
              /\ norm(albumRows[i].artist) = norm(albumRows[j].artist)

\* ------------------------------------------------------ rankAlbumsByMyVote

\* myVotes[a.id] ?? 99
voteOrLast(votes, id) == IF id \in DOMAIN votes THEN votes[id] ELSE 99

\* faulty variant: an album without a vote counts as 0
cmpByMyVoteUnvotedFirst(a, b, votes) ==
    LET va == IF a.id \in DOMAIN votes THEN votes[a.id] ELSE 0
        vb == IF b.id \in DOMAIN votes THEN votes[b.id] ELSE 0
    IN  IF va # vb THEN va - vb
        ELSE IF localeCompare(a.title, b.title) # 0 THEN localeCompare(a.title, b.title)
        ELSE localeCompare(a.artist, b.artist)

\* the comparator passed to sort
cmpByMyVote(a, b, votes) ==
    LET va == voteOrLast(votes, a.id)
        vb == voteOrLast(votes, b.id)
    IN  IF va # vb THEN va - vb
        ELSE IF localeCompare(a.title, b.title) # 0 THEN localeCompare(a.title, b.title)
        ELSE localeCompare(a.artist, b.artist)

\* the stable sort, as in sortScored
RECURSIVE insertRanked(_, _, _)
insertRanked(sorted, x, votes) ==
    IF sorted = <<>> THEN <<x>>
    ELSE IF cmpByMyVote(sorted[Len(sorted)], x, votes) <= 0 THEN Append(sorted, x)
    ELSE Append(insertRanked(SubSeq(sorted, 1, Len(sorted) - 1), x, votes), sorted[Len(sorted)])

RECURSIVE rankAlbumsByMyVote(_, _)
rankAlbumsByMyVote(list, votes) ==
    IF list = <<>> THEN <<>>
    ELSE insertRanked(rankAlbumsByMyVote(SubSeq(list, 1, Len(list) - 1), votes),
                      list[Len(list)], votes)

\* ------------------------------------ specification: rankAlbumsByMyVote
MaxRanked == 3

RankTitles == { <<"a">>, <<"B">> }
RankArtists == { <<"a">>, <<"b">> }

PreferenceValues == 1..3

\* lists of n albums with ids 1..n in any order of titles and artists
AlbumLists(n, titles, artists) ==
    { [i \in 1..n |-> [id |-> i, title |-> t[i], artist |-> r[i]]] :
        t \in [1..n -> titles], r \in [1..n -> artists] }

\* Record<string, PreferenceValue | undefined> over the ids 1..n
VoteMaps(n) == UNION { [S -> PreferenceValues] : S \in SUBSET (1..n) }

RankInit ==
    \E n \in 0..MaxRanked :
        /\ listAlbums \in AlbumLists(n, RankTitles, RankArtists)
        /\ myVotes \in VoteMaps(n)
        /\ rankOut = <<>>

\* [...albums].sort(...) sorts a copy: the list passed stays as it is
CallRankAlbums ==
    /\ rankOut = <<>>
    /\ rankOut' = <<rankAlbumsByMyVote(listAlbums, myVotes)>>
    /\ UNCHANGED <<listAlbums, myVotes>>

RankNext == CallRankAlbums /\ RankOnly

\* the other parts of the program are at rest
RankStart ==
    RankInit /\ LotteryIdle /\ LevIdle /\ SugIdle /\ AddIdle /\ DbIdle /\ RunIdle /\ SesIdle /\ VoteIdle /\ EffIdle

SpecRank == RankStart /\ [][RankNext]_allVars

\* 1, 2, 3 for the user's vote and 4 for an album without one
ClassOf(al) == IF al.id \in DOMAIN myVotes THEN myVotes[al.id] ELSE 4

\* C18: rankAlbumsByMyVote returns a permutation of its input in which
\* albums voted 1 precede those voted 2, those precede the ones voted 3 and
\* those the unvoted; albums with the same vote are in the order of their
\* titles and, for equal titles, of their artists; the input list is not
\* reordered.
RankOrdersByOwnVote ==
    [][ rankOut' # <<>> =>
           LET out == rankOut'[1] IN
           /\ listAlbums' = listAlbums
           /\ Len(out) = Len(listAlbums)
           /\ \A i \in 1..Len(listAlbums) : \E j \in 1..Len(out) : out[j] = listAlbums[i]
           /\ \A i, j \in 1..Len(out) :
                 i < j =>
                    \/ ClassOf(out[i]) < ClassOf(out[j])
                    \/ /\ ClassOf(out[i]) = ClassOf(out[j])
                       /\ \/ localeCompare(out[i].title, out[j].title) < 0
                          \/ /\ out[i].title = out[j].title
                             /\ localeCompare(out[i].artist, out[j].artist) <= 0
      ]_rankVars

\* three albums came back in another order than they went in: one voted 1
\* in front of two unvoted ones that have one title and are in the order of
\* their artists
RankOrdersWitness ==
    /\ rankOut # <<>>
    /\ Len(rankOut[1]) = 3
    /\ rankOut[1] # listAlbums
    /\ rankOut[1][1].id = 3
    /\ myVotes = (3 :> 1)
    /\ rankOut[1][2].title = rankOut[1][3].title
    /\ rankOut[1][2].artist # rankOut[1][3].artist
    /\ rankOut[1][2].id = 2

\* ------------------------------------------- specification: Sort jams
MaxShown == 2

Runs == {1, 2}

RunTitles == { <<"a">>, <<"B">> }
RunArtists == { <<"a">> }

RECURSIVE countVotes(_, _, _)
countVotes(maps, id, v) ==
    IF maps = <<>> THEN 0
    ELSE (IF id \in DOMAIN Head(maps) /\ Head(maps)[id] = v THEN 1 ELSE 0)
         + countVotes(Tail(maps), id, v)

\* fetchStats: the tallies of the albums over the votes of all users
fetchStats(list, maps) ==
    [id \in { list[i].id : i \in 1..Len(list) } |->
        [c1 |-> countVotes(maps, id, 1), c2 |-> countVotes(maps, id, 2),
         c3 |-> countVotes(maps, id, 3)]]

\* faulty variant: the albums somebody voted 1 are ranked as if the user had
sortJamsByTally(prev, votes, tallies) ==
    rankAlbumsByMyVote(prev, [id \in { x \in DOMAIN tallies : tallies[x].c1 > 0 } |-> 1])

\* prev => rankAlbumsByMyVote(prev, myVotes), in a component that also holds
\* stats
sortJams(prev, votes, tallies) == rankAlbumsByMyVote(prev, votes)

RunInit ==
    \E n \in 0..MaxShown :
        /\ \E list \in AlbumLists(n, RunTitles, RunArtists) : runAlbums = [k \in Runs |-> list]
        /\ ownVotes \in VoteMaps(n)
        /\ runSorted = [k \in Runs |-> FALSE]
        /\ othersVotes = [k \in Runs |-> <<>>]

\* the other user votes in run k: upsertVote, then the votes subscription
\* refreshes myVotes and stats of every client
OtherUserVotes(k) ==
    \E i \in 1..Len(runAlbums[k]), v \in PreferenceValues :
        /\ othersVotes' = [othersVotes EXCEPT ![k] =
               [id \in DOMAIN othersVotes[k] \cup {i} |-> IF id = i THEN v ELSE othersVotes[k][id]]]
        /\ UNCHANGED <<runAlbums, runSorted, ownVotes>>

\* user A clicks Sort jams in run k
SortJams(k) ==
    /\ runAlbums' = [runAlbums EXCEPT ![k] =
           sortJams(runAlbums[k], ownVotes,
                    fetchStats(runAlbums[k], <<ownVotes, othersVotes[k]>>))]
    /\ runSorted' = [runSorted EXCEPT ![k] = TRUE]
    /\ UNCHANGED <<ownVotes, othersVotes>>

RunNext ==
    \/ \E k \in Runs : OtherUserVotes(k) /\ RunOnly
    \/ \E k \in Runs : SortJams(k) /\ RunOnly

\* the other parts of the program are at rest
RunStart ==
    RunInit /\ LotteryIdle /\ LevIdle /\ SugIdle /\ AddIdle /\ DbIdle /\ RankIdle /\ SesIdle /\ VoteIdle /\ EffIdle

SpecSortJams == RunStart /\ [][RunNext]_allVars

\* C19: in two runs with the same album list and the same votes of user A,
\* the order computed for A is the same whatever the other user has voted and
\* whatever the tallies are.
RankingPrivacy ==
    (runSorted[1] /\ runSorted[2]) => runAlbums[1] = runAlbums[2]

\* A has sorted in both runs; in one the other user has voted 1 for the
\* album A put last and 3 for the one A put first, in the other run the other
\* user has not voted at all
RankingPrivacyWitness ==
    /\ runSorted = [k \in Runs |-> TRUE]
    /\ Len(runAlbums[1]) = 2
    /\ ownVotes = (2 :> 1)
    /\ runAlbums[1][1].id = 2
    /\ othersVotes[1] = (1 :> 1) @@ (2 :> 3)
    /\ othersVotes[2] = <<>>

\* ------------------------------------------------------------ ensureSession
MaxSessions == 1
NumCallers == 2

Callers == 1..NumCallers
Codes == {"jam", "gig"}
Users == {"ann", "bob"}
NoUser == "nobody"

\* faulty variant: the lookup never finds a row
sessionsWithCodeNone(rows, code) == {}

\* from("sessions").select("id").eq("code", code)
sessionsWithCode(rows, code) == { i \in 1..Len(rows) : rows[i].code = code }

NotCalled ==
    [pc |-> "idle", code |-> "", result |-> 0, created |-> 0, matched |-> {}, failed |-> "none"]

SesInit ==
    /\ sessions \in UNION { [1..n -> [code : Codes, owner_id : Users]] : n \in 0..MaxSessions }
    /\ authUser \in [Callers -> Users \cup {NoUser}]
    /\ calls = [c \in Callers |-> NotCalled]

\* caller c calls ensureSession(code)
CallEnsureSession(c) ==
    /\ calls[c].pc = "idle"
    /\ \E code \in Codes : calls' = [calls EXCEPT ![c].pc = "lookup", ![c].code = code]
    /\ UNCHANGED <<sessions, authUser>>

\* step 1: the select answers. maybeSingle reports an error when more than
\* one row matches; matched notes the rows that had the code at this moment
LookupAnswers(c) ==
    /\ calls[c].pc = "lookup"
    /\ LET found == sessionsWithCode(sessions, calls[c].code)
           seen  == [calls[c] EXCEPT !.matched = { i \in 1..Len(sessions) : sessions[i].code = calls[c].code }]
       IN  \E error \in BOOLEAN :
              calls' = [calls EXCEPT ![c] =
                 IF error \/ Cardinality(found) > 1
                 THEN [seen EXCEPT !.pc = "threw", !.failed = "lookup"]
                 ELSE IF found # {}
                 THEN [seen EXCEPT !.pc = "returned", !.result = CHOOSE i \in found : TRUE]
                 ELSE [seen EXCEPT !.pc = "auth"]]
    /\ UNCHANGED <<sessions, authUser>>

\* step 2: auth.getUser() answers
GetUserAnswers(c) ==
    /\ calls[c].pc = "auth"
    /\ \E authErr \in BOOLEAN :
          calls' = [calls EXCEPT ![c] =
             IF authErr THEN [@ EXCEPT !.pc = "threw", !.failed = "auth"]
             ELSE IF authUser[c] = NoUser THEN [@ EXCEPT !.pc = "threw"]
             ELSE [@ EXCEPT !.pc = "insert"]]
    /\ UNCHANGED <<sessions, authUser>>

\* step 3: the insert answers
InsertAnswers(c) ==
    /\ calls[c].pc = "insert"
    /\ \E insertErr \in BOOLEAN :
          IF insertErr
          THEN /\ calls' = [calls EXCEPT ![c].pc = "threw", ![c].failed = "insert"]
               /\ UNCHANGED sessions
          ELSE /\ sessions' = Append(sessions, [code |-> calls[c].code, owner_id |-> authUser[c]])
               /\ calls' = [calls EXCEPT ![c].pc = "returned", ![c].result = Len(sessions) + 1,
                                         ![c].created = 1]
    /\ UNCHANGED authUser

SesNext ==
    \/ \E c \in Callers : CallEnsureSession(c) /\ SesOnly
    \/ \E c \in Callers : LookupAnswers(c) /\ SesOnly
    \/ \E c \in Callers : GetUserAnswers(c) /\ SesOnly
    \/ \E c \in Callers : InsertAnswers(c) /\ SesOnly

\* the other parts of the program are at rest
SesStart ==
    SesInit /\ LotteryIdle /\ LevIdle /\ SugIdle /\ AddIdle /\ DbIdle /\ RankIdle /\ RunIdle /\ VoteIdle /\ EffIdle

SpecSession == SesStart /\ [][SesNext]_allVars

Finished(c) == calls[c].pc \in {"returned", "threw"}

\* the three cases of a call by what the lookup met and who is signed in
EnsureSessionCases(c) ==
    /\ calls[c].matched # {} =>
          /\ calls[c].pc = "returned"
          /\ calls[c].result \in calls[c].matched
          /\ calls[c].created = 0
    /\ (calls[c].matched = {} /\ authUser[c] = NoUser) =>
          /\ calls[c].pc = "threw"
          /\ calls[c].created = 0
    /\ (calls[c].matched = {} /\ authUser[c] # NoUser) =>
          /\ calls[c].pc = "returned"
          /\ calls[c].created = 1
          /\ calls[c].result \notin calls[c].matched
          /\ sessions[calls[c].result] = [code |-> calls[c].code, owner_id |-> authUser[c]]

\* C20 as stated: if a session with the code exists ensureSession returns its
\* id and creates nothing; if none exists and no user is signed in it throws
\* and creates nothing; if none exists and a user is signed in it inserts
\* exactly one session with that code and owner and returns its id.
EnsureSessionThreeCases ==
    \A c \in Callers : Finished(c) => EnsureSessionCases(c)

\* C20, amended: the three cases hold for every call whose queries are all
\* answered without error; a call that gets an error from the lookup, from
\* auth.getUser or from the insert throws and creates nothing.
EnsureSessionUnlessError ==
    \A c \in Callers :
        Finished(c) =>
            /\ calls[c].failed = "none" => EnsureSessionCases(c)
            /\ calls[c].failed # "none" => (calls[c].pc = "threw" /\ calls[c].created = 0)

\* one caller found the session that was there, a signed-in caller created
\* one for another code, and nothing else was created
EnsureSessionWitness ==
    /\ Len(sessions) = 2
    /\ calls[1].pc = "returned" /\ calls[1].result = 1 /\ calls[1].created = 0
    /\ calls[2].pc = "returned" /\ calls[2].result = 2 /\ calls[2].created = 1
    /\ sessions[2].owner_id = authUser[2]
    /\ sessions[1].code # sessions[2].code

\* ------------------------------------------------------------ the votes table

\* the rows of the table with the key (album_id, user_id)
keyRows(rows, albumId, userId) ==
    { i \in 1..Len(rows) : rows[i].album_id = albumId /\ rows[i].user_id = userId }

\* faulty variant: a plain insert
upsertRowPlainInsert(rows, albumId, userId, value) ==
    Append(rows, [album_id |-> albumId, user_id |-> userId, value |-> value])

\* upsert([{album_id, user_id, value}], {onConflict: "album_id,user_id"}):
\* the row with the key gets the value, and a row is inserted when none has it
upsertRow(rows, albumId, userId, value) ==
    IF keyRows(rows, albumId, userId) # {}
    THEN [i \in 1..Len(rows) |->
             IF i \in keyRows(rows, albumId, userId)
             THEN [rows[i] EXCEPT !.value = value] ELSE rows[i]]
    ELSE Append(rows, [album_id |-> albumId, user_id |-> userId, value |-> value])

\* delete().eq("album_id", albumId).eq("user_id", userId)
deleteRow(rows, albumId, userId) ==
    SelectSeq(rows, LAMBDA r : ~(r.album_id = albumId /\ r.user_id = userId))

\* ------------------------------- specification: upsertVote and deleteVote
VoterAlbums == {1, 2}
Voters == {"anon", "other"}

NoCall == [op |-> "none", album |-> 0, user |-> "", done |-> FALSE]

\* voteLog.written: per key the value of the last upsertVote that returned,
\* or 0 when a deleteVote has returned since (or none was made)
VotesInit ==
    /\ voteRows = <<>>
    /\ voteLog = [written |-> [a \in VoterAlbums, u \in Voters |-> 0], call |-> NoCall]
    /\ clearCall = <<>>
    /\ migration = <<>>
    /\ readStats = <<>>

\* upsertVote(albumId, userId, value) returns, or throws the error of the
\* statement
upsertVote ==
    \E a \in VoterAlbums, u \in Voters, v \in PreferenceValues, error \in BOOLEAN :
        /\ voteRows' = IF error THEN voteRows ELSE upsertRow(voteRows, a, u, v)
        /\ voteLog' = [written |-> IF error THEN voteLog.written
                                   ELSE [voteLog.written EXCEPT ![a, u] = v],
                       call |-> [op |-> "upsertVote", album |-> a, user |-> u, done |-> ~error]]
        /\ UNCHANGED <<clearCall, migration, readStats>>

\* deleteVote(albumId, userId) returns (with a warning when no row was
\* there), or throws the error of the statement
deleteVote ==
    \E a \in VoterAlbums, u \in Voters, error \in BOOLEAN :
        /\ voteRows' = IF error THEN voteRows ELSE deleteRow(voteRows, a, u)
        /\ voteLog' = [written |-> IF error THEN voteLog.written
                                   ELSE [voteLog.written EXCEPT ![a, u] = 0],
                       call |-> [op |-> "deleteVote", album |-> a, user |-> u, done |-> ~error]]
        /\ UNCHANGED <<clearCall, migration, readStats>>

VotesNext ==
    \/ upsertVote /\ VoteOnly
    \/ deleteVote /\ VoteOnly

\* the other parts of the program are at rest
VotesStart ==
    VotesInit /\ LotteryIdle /\ LevIdle /\ SugIdle /\ AddIdle /\ DbIdle /\ RankIdle /\ RunIdle /\ SesIdle /\ EffIdle

SpecVotes == VotesStart /\ [][VotesNext]_allVars

\* the values stored under a key, in table order
valuesAt(rows, a, u) ==
    LET kept == SelectSeq(rows, LAMBDA r : r.album_id = a /\ r.user_id = u)
    IN  [i \in 1..Len(kept) |-> kept[i].value]

TableAlbums == {1, 2, 3}
TableSessions == {"jam", "gig", "new"}

sessionOfAlbum(id) == IF id = 3 THEN "gig" ELSE "jam"

\* from("albums").select("id").eq("session_id", sessionId)
albumIdsOf(sessionId) == { id \in TableAlbums : sessionOfAlbum(id) = sessionId }

\* faulty variant: every vote of the user goes
deleteVotesOfUser(rows, userId, ids) ==
    SelectSeq(rows, LAMBDA r : r.user_id # userId)

\* from("votes").delete().eq("user_id", userId).in("album_id", ids)
deleteVotesIn(rows, userId, ids) ==
    SelectSeq(rows, LAMBDA r : ~(r.user_id = userId /\ r.album_id \in ids))

\* the tables in which the given users hold at most one vote per album
VoteTables(users) ==
    { ListOf({ [album_id |-> k[1], user_id |-> k[2], value |-> f[k]] :
                 k \in { x \in DOMAIN f : f[x] # 0 } }) :
        f \in [TableAlbums \X users -> {0} \cup PreferenceValues] }

ClearUsers == {"anon", "other"}

ClearInit ==
    /\ voteRows \in VoteTables(ClearUsers)
    /\ clearCall = [pc |-> "idle", session |-> "", user |-> "", ids |-> {}, before |-> <<>>]
    /\ voteLog = <<>>
    /\ migration = <<>>
    /\ readStats = <<>>

\* clearVotesForUserInSession(sessionId, userId) is called; before keeps the
\* table as it is at this moment
CallClearVotes ==
    /\ clearCall.pc = "idle"
    /\ \E sessionId \in TableSessions, userId \in ClearUsers :
          clearCall' = [pc |-> "select", session |-> sessionId, user |-> userId,
                        ids |-> {}, before |-> voteRows]
    /\ UNCHANGED <<voteRows, voteLog, migration, readStats>>

\* the select of the album ids answers
ClearSelectAnswers ==
    /\ clearCall.pc = "select"
    /\ \E albumsErr \in BOOLEAN :
          clearCall' =
             IF albumsErr THEN [clearCall EXCEPT !.pc = "threw"]
             ELSE IF albumIdsOf(clearCall.session) = {} THEN [clearCall EXCEPT !.pc = "returned"]
             ELSE [clearCall EXCEPT !.pc = "delete", !.ids = albumIdsOf(clearCall.session)]
    /\ UNCHANGED <<voteRows, voteLog, migration, readStats>>

\* the delete answers
ClearDeleteAnswers ==
    /\ clearCall.pc = "delete"
    /\ \E error \in BOOLEAN :
          IF error
          THEN /\ clearCall' = [clearCall EXCEPT !.pc = "threw"]
               /\ UNCHANGED voteRows
          ELSE /\ voteRows' = deleteVotesIn(voteRows, clearCall.user, clearCall.ids)
               /\ clearCall' = [clearCall EXCEPT !.pc = "returned"]
    /\ UNCHANGED <<voteLog, migration, readStats>>

ClearNext ==
    \/ CallClearVotes /\ VoteOnly
    \/ ClearSelectAnswers /\ VoteOnly
    \/ ClearDeleteAnswers /\ VoteOnly

\* the other parts of the program are at rest
ClearStart ==
    ClearInit /\ LotteryIdle /\ LevIdle /\ SugIdle /\ AddIdle /\ DbIdle /\ RankIdle /\ RunIdle /\ SesIdle /\ EffIdle

SpecClear == ClearStart /\ [][ClearNext]_allVars

\* C22: when clearVotesForUserInSession(sessionId, userId) has returned, the
\* user has no vote on any album of the session, and the votes of other users
\* and the user's votes on albums of other sessions are what they were; for a
\* session without albums nothing is deleted.
ClearRemovesExactly ==
    clearCall.pc = "returned" =>
        /\ \A i \in 1..Len(voteRows) :
              ~(voteRows[i].user_id = clearCall.user
                /\ sessionOfAlbum(voteRows[i].album_id) = clearCall.session)
        /\ voteRows = SelectSeq(clearCall.before,
                          LAMBDA r : ~(r.user_id = clearCall.user
                                       /\ sessionOfAlbum(r.album_id) = clearCall.session))
        /\ albumIdsOf(clearCall.session) = {} => voteRows = clearCall.before

\* the call for session "jam" has returned; the user had votes on both albums
\* of the session and on the album of the other session, and another user had
\* a vote in the session
ClearRemovesWitness ==
    /\ clearCall.pc = "returned"
    /\ clearCall.session = "jam"
    /\ clearCall.user = "anon"
    /\ Len(clearCall.before) = 4
    /\ Len(voteRows) = 2
    /\ \E i \in 1..2 : voteRows[i].user_id = "anon" /\ voteRows[i].album_id = 3
    /\ \E i \in 1..2 : voteRows[i].user_id = "other" /\ voteRows[i].album_id = 1

\* --------------------------- specification: migrateVotesFromAnonToAuth
AnonId == "anon"
AuthId == "auth"

\* the album_stats view over the albums of a session
albumStats(rows, sessionId) ==
    [id \in albumIdsOf(sessionId) |->
        [c1 |-> Cardinality({ i \in 1..Len(rows) : rows[i].album_id = id /\ rows[i].value = 1 }),
         c2 |-> Cardinality({ i \in 1..Len(rows) : rows[i].album_id = id /\ rows[i].value = 2 }),
         c3 |-> Cardinality({ i \in 1..Len(rows) : rows[i].album_id = id /\ rows[i].value = 3 })]]

\* from("votes").select("album_id, value").eq("user_id", anonId).in("album_id", albumIds)
votesOfIn(rows, userId, ids) ==
    SelectSeq(rows, LAMBDA r : r.user_id = userId /\ r.album_id \in ids)

\* the upsert of step 3: one row of authId per old vote
RECURSIVE upsertAll(_, _, _)
upsertAll(rows, old, userId) ==
    IF old = <<>> THEN rows
    ELSE upsertAll(upsertRow(rows, Head(old).album_id, userId, Head(old).value), Tail(old), userId)

NotMigrating ==
    [pc |-> "idle", session |-> "", albumIds |-> {}, oldVotes |-> <<>>, before |-> <<>>,
     upserted |-> {}]

\* the votes of the anonymous and of the signed-in identity, with or without
\* a vote of another user on album 1
MigrateInit ==
    /\ \E t \in VoteTables({AnonId, AuthId}), more \in BOOLEAN :
          voteRows = IF more THEN Append(t, [album_id |-> 1, user_id |-> "other", value |-> 1])
                     ELSE t
    /\ migration = NotMigrating
    /\ readStats = <<>>
    /\ voteLog = <<>>
    /\ clearCall = <<>>

CallMigrate ==
    /\ migration.pc = "idle"
    /\ \E sessionId \in TableSessions :
          migration' = [NotMigrating EXCEPT !.pc = "albums", !.session = sessionId,
                                            !.before = voteRows]
    /\ UNCHANGED <<voteRows, readStats, voteLog, clearCall>>

\* step 1 answers: if (albumsErr || !albums) return, and a return as well
\* when the session has no albums
MigrateAlbumsAnswer ==
    /\ migration.pc = "albums"
    /\ \E albumsErr \in BOOLEAN :
          migration' =
             IF albumsErr THEN [migration EXCEPT !.pc = "returned"]
             ELSE IF albumIdsOf(migration.session) = {} THEN [migration EXCEPT !.pc = "returned"]
             ELSE [migration EXCEPT !.pc = "oldVotes", !.albumIds = albumIdsOf(migration.session)]
    /\ UNCHANGED <<voteRows, readStats, voteLog, clearCall>>

\* step 2 answers
MigrateOldVotesAnswer ==
    /\ migration.pc = "oldVotes"
    /\ \E oldErr \in BOOLEAN :
          migration' =
             IF oldErr THEN [migration EXCEPT !.pc = "threw"]
             ELSE IF votesOfIn(voteRows, AnonId, migration.albumIds) = <<>>
             THEN [migration EXCEPT !.pc = "returned"]
             ELSE [migration EXCEPT !.pc = "upsert",
                                    !.oldVotes = votesOfIn(voteRows, AnonId, migration.albumIds)]
    /\ UNCHANGED <<voteRows, readStats, voteLog, clearCall>>

\* step 3 answers
MigrateUpsertAnswers ==
    /\ migration.pc = "upsert"
    /\ \E upsertErr \in BOOLEAN :
          IF upsertErr
          THEN /\ migration' = [migration EXCEPT !.pc = "threw"]
               /\ UNCHANGED voteRows
          ELSE /\ voteRows' = upsertAll(voteRows, migration.oldVotes, AuthId)
               /\ migration' = [migration EXCEPT !.pc = "delete",
                      !.upserted = { migration.oldVotes[i].album_id : i \in 1..Len(migration.oldVotes) }]
    /\ UNCHANGED <<readStats, voteLog, clearCall>>

\* step 4 answers
MigrateDeleteAnswers ==
    /\ migration.pc = "delete"
    /\ \E delErr \in BOOLEAN :
          IF delErr
          THEN /\ migration' = [migration EXCEPT !.pc = "threw"]
               /\ UNCHANGED voteRows
          ELSE /\ voteRows' = deleteVotesIn(voteRows, AnonId, migration.albumIds)
               /\ migration' = [migration EXCEPT !.pc = "returned"]
    /\ UNCHANGED <<readStats, voteLog, clearCall>>

\* another client refetches the tallies of session "jam"
OtherClientFetchesStats ==
    /\ migration.pc \in {"upsert", "delete", "threw", "returned"}
    /\ readStats' = <<albumStats(voteRows, "jam")>>
    /\ UNCHANGED <<voteRows, migration, voteLog, clearCall>>

MigrateNext ==
    \/ CallMigrate /\ VoteOnly
    \/ MigrateAlbumsAnswer /\ VoteOnly
    \/ MigrateOldVotesAnswer /\ VoteOnly
    \/ MigrateUpsertAnswers /\ VoteOnly
    \/ MigrateDeleteAnswers /\ VoteOnly
    \/ OtherClientFetchesStats /\ VoteOnly

\* the other parts of the program are at rest
MigrateStart ==
    MigrateInit /\ LotteryIdle /\ LevIdle /\ SugIdle /\ AddIdle /\ DbIdle /\ RankIdle /\ RunIdle /\ SesIdle /\ EffIdle

SpecMigrate == MigrateStart /\ [][MigrateNext]_allVars

InSession(r) == sessionOfAlbum(r.album_id) = migration.session

\* the anonymous identity had votes in the session when the call was made
AnonHadVotes ==
    \E i \in 1..Len(migration.before) :
        migration.before[i].user_id = AnonId /\ InSession(migration.before[i])

\* what the claim says of the table after the call
Migrated ==
    /\ \A i \in 1..Len(migration.before) :
          (migration.before[i].user_id = AnonId /\ InSession(migration.before[i])) =>
              valuesAt(voteRows, migration.before[i].album_id, AuthId)
                 = <<migration.before[i].value>>
    /\ \A i \in 1..Len(voteRows) : ~(voteRows[i].user_id = AnonId /\ InSession(voteRows[i]))
    /\ \A a \in TableAlbums, u \in {AnonId, AuthId, "other"} :
          (u = "other" \/ sessionOfAlbum(a) # migration.session) =>
              valuesAt(voteRows, a, u) = valuesAt(migration.before, a, u)

\* C23: when migrateVotesFromAnonToAuth has completed without throwing and
\* the anonymous identity had votes in the session, the signed-in identity
\* holds a vote of the same value on each of those albums, the anonymous
\* identity holds none in the session, and the votes of other users and on
\* albums of other sessions are unchanged.
MigrationMovesVotes ==
    (migration.pc = "returned" /\ AnonHadVotes) => Migrated

\* C24: during and after migrateVotesFromAnonToAuth a vote row of the
\* anonymous identity and a migrated row of the signed-in identity for one
\* album never exist at the same time.
NeverCountedTwice ==
    \A a \in migration.upserted :
        valuesAt(voteRows, a, AnonId) = <<>> \/ valuesAt(voteRows, a, AuthId) = <<>>

\* ------------------------------------------------- the picked album, again

\* C28: after any sequence of album additions, removals, list refreshes and
\* pick requests a non-null picked album is a member of the current album
\* list, and right after a pick request on a non-empty list picked is an
\* element of the list the request was computed from.
PickedIsListed ==
    [][ /\ picked' # NoAlbum => InList(albums', picked')
        /\ (path' # "none" /\ albums # <<>>) => InList(albums, picked')
      ]_vars

\* ------------------------------------- the data-loading effect of JamApp
MaxEffects == 2
MaxChanges == 2

SessionNames == {"jam", "gig"}

\* sessionId = null
NoId == 0

\* the id ensureSession returns for a session name
idOfName(name) == IF name = "jam" THEN 1 ELSE 2

SessionIds == { idOfName(n) : n \in SessionNames }

\* a run of the effect for a session name. pc is the await it is at
\* ("ensure", "albums", "votes"), "subscribed" once both subscriptions are
\* open, "stopped" when it has returned at a check of alive and "failed" when
\* an awaited call has thrown. albumFetches and voteFetches hold the results
\* of the refetches its subscription callbacks have started and that have not
\* returned yet.
NewEffect(name) ==
    [name |-> name, id |-> NoId, pc |-> "ensure", alive |-> TRUE, subs |-> FALSE,
     albumFetches |-> <<>>, voteFetches |-> <<>>]

\* faulty variant: the run goes on whether it has been cleaned up or not
aliveSkipped(e) == TRUE

\* if (!alive) return
aliveCheck(e) == e.alive

\* the cleanup of a run: alive = false, and both subscriptions are removed
\* when they have been opened
cleanup(e) == [e EXCEPT !.alive = FALSE, !.subs = FALSE]

dropAt(q, i) == [j \in 1..(Len(q) - 1) |-> IF j < i THEN q[j] ELSE q[j + 1]]

EffInit ==
    /\ jamSession \in SessionNames
    /\ jamSessionId = NoId
    /\ jamAlbums = <<>>
    /\ jamVotes = 0
    /\ mounted = TRUE
    /\ effects = <<NewEffect(jamSession)>>
    /\ storedAlbums = [id \in SessionIds |-> <<>>]
    /\ storedVotes = [id \in SessionIds |-> 0]
    /\ changes = 0
    /\ late = [write |-> FALSE, sub |-> FALSE, dropped |-> FALSE]

\* const id = await ensureSession(session); if (!alive) return; setSessionId(id)
EnsureSessionReturns(k) ==
    /\ effects[k].pc = "ensure"
    /\ \E threw \in BOOLEAN :
          IF threw
          THEN /\ effects' = [effects EXCEPT ![k].pc = "failed"]
               /\ UNCHANGED <<jamSessionId, late>>
          ELSE IF aliveCheck(effects[k])
          THEN /\ jamSessionId' = idOfName(effects[k].name)
               /\ effects' = [effects EXCEPT ![k].pc = "albums", ![k].id = idOfName(effects[k].name)]
               /\ late' = [late EXCEPT !.write = @ \/ ~effects[k].alive]
          ELSE /\ effects' = [effects EXCEPT ![k].pc = "stopped"]
               /\ late' = [late EXCEPT !.dropped = TRUE]
               /\ UNCHANGED jamSessionId
    /\ UNCHANGED <<jamSession, jamAlbums, jamVotes, mounted, storedAlbums, storedVotes, changes>>

\* const rows = await fetchAlbums(id); if (!alive) return; setAlbums(rows)
FetchAlbumsReturns(k) ==
    /\ effects[k].pc = "albums"
    /\ \E threw \in BOOLEAN :
          IF threw
          THEN /\ effects' = [effects EXCEPT ![k].pc = "failed"]
               /\ UNCHANGED <<jamAlbums, late>>
          ELSE IF aliveCheck(effects[k])
          THEN /\ jamAlbums' = storedAlbums[effects[k].id]
               /\ effects' = [effects EXCEPT ![k].pc = "votes"]
               /\ late' = [late EXCEPT !.write = @ \/ ~effects[k].alive]
          ELSE /\ effects' = [effects EXCEPT ![k].pc = "stopped"]
               /\ late' = [late EXCEPT !.dropped = TRUE]
               /\ UNCHANGED jamAlbums
    /\ UNCHANGED <<jamSession, jamSessionId, jamVotes, mounted, storedAlbums, storedVotes, changes>>

\* const [mv, st] = await Promise.all([...]); if (!alive) return;
\* setMyVotes(mv); setStats(st); then, in the same turn, subscribeAlbums and
\* subscribeVotes
FetchVotesReturns(k) ==
    /\ effects[k].pc = "votes"
    /\ \E threw \in BOOLEAN :
          IF threw
          THEN /\ effects' = [effects EXCEPT ![k].pc = "failed"]
               /\ UNCHANGED <<jamVotes, late>>
          ELSE IF aliveCheck(effects[k])
          THEN /\ jamVotes' = storedVotes[effects[k].id]
               /\ effects' = [effects EXCEPT ![k].pc = "subscribed", ![k].subs = TRUE]
               /\ late' = [late EXCEPT !.write = @ \/ ~effects[k].alive,
                                       !.sub = @ \/ ~effects[k].alive]
          ELSE /\ effects' = [effects EXCEPT ![k].pc = "stopped"]
               /\ late' = [late EXCEPT !.dropped = TRUE]
               /\ UNCHANGED jamVotes
    /\ UNCHANGED <<jamSession, jamSessionId, jamAlbums, mounted, storedAlbums, storedVotes, changes>>

\* some client inserts an album into session id; the albums subscription of
\* every run subscribed to that session calls back and starts a fetchAlbums,
\* which reads the table as it is now
AlbumInserted(id) ==
    /\ changes < MaxChanges
    /\ changes' = changes + 1
    /\ storedAlbums' = [storedAlbums EXCEPT ![id] = Append(@, Len(@) + 1)]
    /\ effects' = [k \in 1..Len(effects) |->
           IF effects[k].subs /\ effects[k].id = id
           THEN [effects[k] EXCEPT !.albumFetches = Append(@, storedAlbums'[id])]
           ELSE effects[k]]
    /\ UNCHANGED <<jamSession, jamSessionId, jamAlbums, jamVotes, mounted, storedVotes, late>>

\* some user votes in session id; the votes subscription, which is on the
\* whole table, calls back in every subscribed run and starts the two fetches
\* for that run's session
VoteCast(id) ==
    /\ changes < MaxChanges
    /\ changes' = changes + 1
    /\ storedVotes' = [storedVotes EXCEPT ![id] = @ + 1]
    /\ effects' = [k \in 1..Len(effects) |->
           IF effects[k].subs
           THEN [effects[k] EXCEPT !.voteFetches = Append(@, storedVotes'[effects[k].id])]
           ELSE effects[k]]
    /\ UNCHANGED <<jamSession, jamSessionId, jamAlbums, jamVotes, mounted, storedAlbums, late>>

\* const latest = await fetchAlbums(id); if (!alive) return; setAlbums(latest)
\* for any one of the refetches under way
AlbumsRefetchReturns(k) ==
    \E i \in 1..Len(effects[k].albumFetches), threw \in BOOLEAN :
        /\ effects' = [effects EXCEPT ![k].albumFetches = dropAt(@, i)]
        /\ IF threw THEN UNCHANGED <<jamAlbums, late>>
           ELSE IF aliveCheck(effects[k])
           THEN /\ jamAlbums' = effects[k].albumFetches[i]
                /\ late' = [late EXCEPT !.write = @ \/ ~effects[k].alive]
           ELSE /\ late' = [late EXCEPT !.dropped = TRUE]
                /\ UNCHANGED jamAlbums
        /\ UNCHANGED <<jamSession, jamSessionId, jamVotes, mounted, storedAlbums, storedVotes, changes>>

VotesRefetchReturns(k) ==
    \E i \in 1..Len(effects[k].voteFetches), threw \in BOOLEAN :
        /\ effects' = [effects EXCEPT ![k].voteFetches = dropAt(@, i)]
        /\ IF threw THEN UNCHANGED <<jamVotes, late>>
           ELSE IF aliveCheck(effects[k])
           THEN /\ jamVotes' = effects[k].voteFetches[i]
                /\ late' = [late EXCEPT !.write = @ \/ ~effects[k].alive]
           ELSE /\ late' = [late EXCEPT !.dropped = TRUE]
                /\ UNCHANGED jamVotes
        /\ UNCHANGED <<jamSession, jamSessionId, jamAlbums, mounted, storedAlbums, storedVotes, changes>>

\* addAlbum of the component, past its checks of the two fields and of the
\* list: if (!sessionId) return; await addAlbumRow(sessionId, t, a, c). The row
\* goes to the session sessionId holds, and the albums subscriptions on that
\* session call back; a rejected insert is caught and changes nothing
AddAlbumToSession ==
    /\ mounted
    /\ jamSessionId # NoId
    /\ changes < MaxChanges
    /\ changes' = changes + 1
    /\ \E threw \in BOOLEAN :
          IF threw THEN UNCHANGED <<storedAlbums, effects>>
          ELSE /\ storedAlbums' = [storedAlbums EXCEPT ![jamSessionId] = Append(@, Len(@) + 1)]
               /\ effects' = [k \in 1..Len(effects) |->
                      IF effects[k].subs /\ effects[k].id = jamSessionId
                      THEN [effects[k] EXCEPT !.albumFetches = Append(@, storedAlbums'[jamSessionId])]
                      ELSE effects[k]]
    /\ UNCHANGED <<jamSession, jamSessionId, jamAlbums, jamVotes, mounted, storedVotes, late>>

\* setSession(name) from the session input: the running effect is cleaned up
\* and the effect runs again for the new name; sessionId, albums, myVotes and
\* stats stay what they are
SetSession(name) ==
    /\ mounted
    /\ name # jamSession
    /\ Len(effects) < MaxEffects
    /\ jamSession' = name
    /\ effects' = Append([effects EXCEPT ![Len(effects)] = cleanup(@)], NewEffect(name))
    /\ UNCHANGED <<jamSessionId, jamAlbums, jamVotes, mounted, storedAlbums, storedVotes,
                   changes, late>>

\* the component is unmounted: the running effect is cleaned up
Unmount ==
    /\ mounted
    /\ mounted' = FALSE
    /\ effects' = [effects EXCEPT ![Len(effects)] = cleanup(@)]
    /\ UNCHANGED <<jamSession, jamSessionId, jamAlbums, jamVotes, storedAlbums, storedVotes,
                   changes, late>>

EffNext ==
    \/ \E k \in 1..Len(effects) : EnsureSessionReturns(k) /\ EffOnly
    \/ \E k \in 1..Len(effects) : FetchAlbumsReturns(k) /\ EffOnly
    \/ \E k \in 1..Len(effects) : FetchVotesReturns(k) /\ EffOnly
    \/ \E id \in SessionIds : AlbumInserted(id) /\ EffOnly
    \/ \E id \in SessionIds : VoteCast(id) /\ EffOnly
    \/ \E k \in 1..Len(effects) : AlbumsRefetchReturns(k) /\ EffOnly
    \/ \E k \in 1..Len(effects) : VotesRefetchReturns(k) /\ EffOnly
    \/ \E name \in SessionNames : SetSession(name) /\ EffOnly
    \/ AddAlbumToSession /\ EffOnly
    \/ Unmount /\ EffOnly

\* the other parts of the program are at rest
EffStart ==
    EffInit /\ LotteryIdle /\ LevIdle /\ SugIdle /\ AddIdle /\ DbIdle /\ RankIdle /\ RunIdle /\ SesIdle /\ VoteIdle

SpecEffect == EffStart /\ [][EffNext]_allVars

\* C25: once a run of the effect has been cleaned up, no result of a fetch
\* it started is written to sessionId, albums, myVotes or stats, it opens no
\* subscription afterwards, and every subscription it opened has been removed.
CleanedUpRunIsSilent ==
    /\ ~late.write
    /\ ~late.sub
    /\ \A k \in 1..Len(effects) : ~effects[k].alive => ~effects[k].subs

\* the first run had subscribed and was cleaned up by a change of session; a
\* result that came back for a cleaned-up run was dropped, and the second run
\* has subscribed in its turn
CleanedUpRunWitness ==
    /\ Len(effects) = 2
    /\ effects[1].pc = "subscribed"
    /\ ~effects[1].alive
    /\ effects[1].albumFetches = <<>>
    /\ late.dropped
    /\ effects[2].subs
    /\ jamAlbums = storedAlbums[effects[2].id]
    /\ storedAlbums[effects[1].id] # <<>>

\* the running effect has subscribed and no refetch of it is under way
Settled ==
    /\ mounted
    /\ effects[Len(effects)].pc = "subscribed"
    /\ effects[Len(effects)].albumFetches = <<>>
    /\ effects[Len(effects)].voteFetches = <<>>

\* C26: once every change notification has triggered its refetch and all
\* refetches have completed, albums, myVotes and stats equal what the database
\* holds for the session, whether a change fell between the initial fetch and
\* the start of the subscription or refetch responses arrived out of order.
SettledIsFresh ==
    Settled =>
        /\ jamAlbums = storedAlbums[effects[Len(effects)].id]
        /\ jamVotes = storedVotes[effects[Len(effects)].id]

\* C27: in every state in which addAlbum can reach addAlbumRow (sessionId is
\* set), sessionId is the id of the session whose code is the current session
\* name, also while a session switch is under way or after ensureSession has
\* failed for the new name.
SessionIdMatchesName ==
    (mounted /\ jamSessionId # NoId) => jamSessionId = idOfName(jamSession)

====
